---- MODULE Spec2Model ----
(***************************************************************************)
(* Model of function_app.py: the three HTTP handlers collect_data,         *)
(* mute_alarm and plot_data running on a thread pool over the module-level *)
(* state history, mute_next_response, last_motion_state,                   *)
(* last_vault_status, all guarded by data_lock.                            *)
(***************************************************************************)
EXTENDS Integers, Sequences, FiniteSets, TLC

\* ------------------------------------------------------------------ bounds
NumProcs == 2          \* worker threads of the pool
MaxReqs == 3           \* requests issued in one behaviour of Spec
SeqReports == 150      \* sequential submissions in SpecSeq
MuteReqs == 4          \* requests issued in one behaviour of SpecMute
LiveReqs == 2          \* requests issued in one behaviour of SpecLive
MaxClock == 1          \* seconds the wall clock advances in SpecClock

\* --------------------------------------------------------- program constants
maxlen == 100          \* history = deque(maxlen=100)

Procs == 1..NumProcs
NoProc == 0

\* ------------------------------------------------------------------- state
VARIABLES
  history,              \* deque of records, oldest first
  mute_next_response,   \* the one-shot mute flag
  last_motion_state,    \* motion value of the last evaluated report
  last_vault_status,    \* vault status of the last evaluated report
  data_lock,            \* NoProc when free, else the thread holding it
  clock,                \* datetime.now(), in whole seconds
  pc,                   \* per thread: position in its handler
  rid,                  \* per thread: number of the request it serves
  req_body,             \* per thread: local req_body
  timestamp,            \* per thread: local timestamp
  email_triggers,       \* per thread: local email_triggers
  should_send_email,    \* per thread: local should_send_email
  respond_with_mute,    \* per thread: local respond_with_mute
  data_snapshot,        \* per thread: local data_snapshot of plot_data
  reqs,                 \* observation log: one entry per request issued
  order                 \* observation log: request numbers in lock order

shared == <<history, mute_next_response, last_motion_state, last_vault_status>>
locals == <<req_body, timestamp, email_triggers, should_send_email,
            respond_with_mute, data_snapshot>>
vars == <<history, mute_next_response, last_motion_state, last_vault_status,
          data_lock, clock, pc, rid, req_body, timestamp, email_triggers,
          should_send_email, respond_with_mute, data_snapshot, reqs, order>>

\* ------------------------------------------------------------ request bodies
\* JSON objects a device can send; a key that is not in the record is missing.
Objects ==
  { [motion_detected |-> TRUE],
    [vault_status |-> "OPEN"],
    [motion_detected |-> FALSE, vault_status |-> "AJAR"] }

\* Raw request bodies: text that is not JSON, JSON that is not an object,
\* and JSON objects.
Payloads ==
  { [kind |-> "unparseable"], [kind |-> "array"] }
    \cup { [kind |-> "object", members |-> o] : o \in Objects }

NoBody == [kind |-> "none"]

\* Variant: get_json accepts any text.
get_json_raises_never(raw) == FALSE

\* req.get_json() raises ValueError on text that is not JSON.
get_json_raises(raw) == raw.kind = "unparseable"

\* Only a dict has .get; on any other JSON value it is an AttributeError.
has_get(body) == body.kind = "object"

\* dict.get(key, default)
get(body, key, default) ==
  IF key \in DOMAIN body.members THEN body.members[key] ELSE default

\* Variant: a deque without maxlen.
deque_append_unbounded(d, x) == Append(d, x)

\* deque.append with maxlen: drops from the left when full.
deque_append(d, x) ==
  LET a == Append(d, x)
  IN  IF Len(a) > maxlen THEN SubSeq(a, 2, Len(a)) ELSE a

\* ----------------------------------------------------------- observation log
NewReq(op, body) ==
  [op |-> op, body |-> body, cs |-> "none", triggers |-> <<>>,
   muted |-> FALSE, notified |-> "none", response |-> "none", page |-> <<>>]

\* The pool hands a new request to its first free worker thread.
Idle(p) ==
  /\ pc[p] = "idle"
  /\ \A q \in Procs : q < p => pc[q] # "idle"

ResetLocals(p) ==
  /\ rid' = [rid EXCEPT ![p] = 0]
  /\ req_body' = [req_body EXCEPT ![p] = NoBody]
  /\ timestamp' = [timestamp EXCEPT ![p] = 0]
  /\ email_triggers' = [email_triggers EXCEPT ![p] = <<>>]
  /\ should_send_email' = [should_send_email EXCEPT ![p] = FALSE]
  /\ respond_with_mute' = [respond_with_mute EXCEPT ![p] = FALSE]
  /\ data_snapshot' = [data_snapshot EXCEPT ![p] = <<>>]

\* -------------------------------------------------------------------- Init
Init ==
  /\ history = <<>>
  /\ mute_next_response = FALSE
  /\ last_motion_state = FALSE
  /\ last_vault_status = "CLOSED"
  /\ data_lock = NoProc
  /\ clock = 0
  /\ pc = [p \in Procs |-> "idle"]
  /\ rid = [p \in Procs |-> 0]
  /\ req_body = [p \in Procs |-> NoBody]
  /\ timestamp = [p \in Procs |-> 0]
  /\ email_triggers = [p \in Procs |-> <<>>]
  /\ should_send_email = [p \in Procs |-> FALSE]
  /\ respond_with_mute = [p \in Procs |-> FALSE]
  /\ data_snapshot = [p \in Procs |-> <<>>]
  /\ reqs = <<>>
  /\ order = <<>>

\* The wall clock advances.
Tick(limit) ==
  /\ clock < limit
  /\ clock' = clock + 1
  /\ UNCHANGED <<shared, data_lock, pc, rid, locals, reqs, order>>

\* ------------------------------------------------------------ collect_data
\* Lines 63-71, body parses: req_body, timestamp and the three locals.
collect_parse(p, raw, limit) ==
  /\ Idle(p)
  /\ Len(reqs) < limit
  /\ ~get_json_raises(raw)
  /\ reqs' = Append(reqs, NewReq("collect", raw))
  /\ rid' = [rid EXCEPT ![p] = Len(reqs) + 1]
  /\ req_body' = [req_body EXCEPT ![p] = raw]
  /\ timestamp' = [timestamp EXCEPT ![p] = clock]
  /\ should_send_email' = [should_send_email EXCEPT ![p] = FALSE]
  /\ email_triggers' = [email_triggers EXCEPT ![p] = <<>>]
  /\ respond_with_mute' = [respond_with_mute EXCEPT ![p] = FALSE]
  /\ pc' = [pc EXCEPT ![p] = "c_lock"]
  /\ UNCHANGED <<shared, data_lock, clock, data_snapshot, order>>

\* Line 65 raises ValueError; lines 131-132 answer 400.
collect_ValueError(p, raw, limit) ==
  /\ Idle(p)
  /\ Len(reqs) < limit
  /\ get_json_raises(raw)
  /\ reqs' = Append(reqs, [NewReq("collect", raw) EXCEPT !.response = "400"])
  /\ UNCHANGED <<shared, data_lock, clock, pc, rid, locals, order>>

\* Line 74: with data_lock, entry.
collect_acquire(p) ==
  /\ pc[p] = "c_lock"
  /\ data_lock = NoProc
  /\ data_lock' = p
  /\ order' = Append(order, rid[p])
  /\ pc' = [pc EXCEPT ![p] = "c_critical"]
  /\ UNCHANGED <<shared, clock, rid, locals, reqs>>

\* Variant: the with block is left without releasing the lock.
with_exit_held(p) == p

\* Leaving a with data_lock block at its end: the lock is released.
with_exit(p) == NoProc

\* Variant: an exception leaves the with block without releasing the lock.
with_exit_raise_held(p) == p

\* Leaving a with data_lock block by an exception: the lock is released.
with_exit_raise(p) == NoProc

\* Variant: line 80 is missing, nothing is stored.
append_record_skipped(p) == history

\* Lines 76-80: the record is stored before the body is looked at.
append_record(p) ==
  deque_append(history, [timestamp |-> timestamp[p], data |-> req_body[p]])

\* Variant: motion is level-triggered, the previous motion is not consulted.
edge_triggers_motion_level(current_motion, current_status, prev_motion, prev_status) ==
  (IF current_motion THEN <<"Motion Detected">> ELSE <<>>)
    \o (IF current_status = "OPEN" /\ prev_status = "CLOSED"
        THEN <<"Vault Opened">> ELSE <<>>)

\* Variant: the vault is level-triggered, the previous status is not consulted.
edge_triggers_vault_level(current_motion, current_status, prev_motion, prev_status) ==
  (IF current_motion /\ ~prev_motion THEN <<"Motion Detected">> ELSE <<>>)
    \o (IF current_status = "OPEN" THEN <<"Vault Opened">> ELSE <<>>)

\* Lines 87-94: the edge detection, as the ordered list email_triggers.
edge_triggers(current_motion, current_status, prev_motion, prev_status) ==
  (IF current_motion /\ ~prev_motion THEN <<"Motion Detected">> ELSE <<>>)
    \o (IF current_status = "OPEN" /\ prev_status = "CLOSED"
        THEN <<"Vault Opened">> ELSE <<>>)

\* Variant: line 97 is missing, the remembered motion never changes.
next_motion_state_never(current_motion) == FALSE

\* Lines 96-98: the state remembered for the next comparison.
next_motion_state(current_motion) == current_motion

\* Variant: the previous status is forgotten, every report compares to CLOSED.
next_vault_status_never(current_status) == "CLOSED"

\* Line 98.
next_vault_status(current_status) == current_status

\* Variant: the mail is sent for every report.
decide_email_always(triggers) == TRUE

\* Lines 100-102: should_send_email.
decide_email(triggers) == triggers # <<>>

\* Variant: the flag is reset but the report is not told to mute.
consume_mute_lost(flag) == [respond |-> FALSE, flag |-> FALSE]

\* Variant: line 108 is missing, the flag is read but not reset.
consume_mute_keep(flag) == [respond |-> flag, flag |-> flag]

\* Lines 104-108: the flag is read and reset under the lock.
consume_mute(flag) == [respond |-> flag, flag |-> FALSE]

\* Lines 76-108 on a JSON object, and the end of the with block.
collect_critical(p) ==
  /\ pc[p] = "c_critical"
  /\ has_get(req_body[p])
  /\ history' = append_record(p)
  /\ LET current_motion == get(req_body[p], "motion_detected", FALSE)
         current_status == get(req_body[p], "vault_status", "CLOSED")
         triggers == edge_triggers(current_motion, current_status,
                                   last_motion_state, last_vault_status)
         m == consume_mute(mute_next_response)
     IN  /\ email_triggers' = [email_triggers EXCEPT ![p] = triggers]
         /\ should_send_email' =
              [should_send_email EXCEPT ![p] = decide_email(triggers)]
         /\ last_motion_state' = next_motion_state(current_motion)
         /\ last_vault_status' = next_vault_status(current_status)
         /\ respond_with_mute' = [respond_with_mute EXCEPT ![p] = m.respond]
         /\ mute_next_response' = m.flag
         /\ reqs' = [reqs EXCEPT ![rid[p]].cs = "evaluated",
                                 ![rid[p]].triggers = triggers,
                                 ![rid[p]].muted = m.respond]
  /\ data_lock' = with_exit(p)
  /\ pc' = [pc EXCEPT ![p] = "c_notify"]
  /\ UNCHANGED <<clock, rid, req_body, timestamp, data_snapshot, order>>

\* Lines 76-83 on JSON that is not an object: the record is appended, line 83
\* raises AttributeError, the with block releases the lock on the way out and
\* line 133 catches the exception.
collect_AttributeError(p) ==
  /\ pc[p] = "c_critical"
  /\ ~has_get(req_body[p])
  /\ history' = append_record(p)
  /\ data_lock' = with_exit_raise(p)
  /\ reqs' = [reqs EXCEPT ![rid[p]].cs = "fault"]
  /\ pc' = [pc EXCEPT ![p] = "c_500"]
  /\ UNCHANGED <<mute_next_response, last_motion_state, last_vault_status,
                 clock, rid, locals, order>>

\* send_acs_email returns None on every path: the mail is sent (lines 51-53),
\* or an error is logged, for missing configuration (33-35) or an exception
\* of the mail client (55-56).
send_acs_email_outcomes == {"sent", "failed"}

\* Variant: a failed send escapes send_acs_email and reaches line 133.
after_send_raises(outcome) == IF outcome = "failed" THEN "c_500" ELSE "c_respond"

\* The position after send_acs_email returns.
after_send(outcome) == "c_respond"

\* Lines 112-122.
collect_notify(p, outcome) ==
  /\ pc[p] = "c_notify"
  /\ should_send_email[p]
  /\ reqs' = [reqs EXCEPT ![rid[p]].notified = outcome]
  /\ pc' = [pc EXCEPT ![p] = after_send(outcome)]
  /\ UNCHANGED <<shared, data_lock, clock, rid, locals, order>>

\* Variant: the two response bodies are exchanged.
response_text_swapped(mute) == IF mute THEN "true" ELSE "false"

\* Lines 125-129: the body of the 200 response.
response_text(mute) == IF mute THEN "false" ELSE "true"

collect_respond(p) ==
  /\ \/ pc[p] = "c_respond"
     \/ pc[p] = "c_notify" /\ ~should_send_email[p]
  /\ reqs' = [reqs EXCEPT ![rid[p]].response =
                 response_text(respond_with_mute[p])]
  /\ pc' = [pc EXCEPT ![p] = "idle"]
  /\ ResetLocals(p)
  /\ UNCHANGED <<shared, data_lock, clock, order>>

\* Lines 133-135.
collect_Exception(p) ==
  /\ pc[p] = "c_500"
  /\ reqs' = [reqs EXCEPT ![rid[p]].response = "500"]
  /\ pc' = [pc EXCEPT ![p] = "idle"]
  /\ ResetLocals(p)
  /\ UNCHANGED <<shared, data_lock, clock, order>>

\* -------------------------------------------------------------- mute_alarm
\* Entry of mute_alarm, before line 142.
mute_begin(p, limit) ==
  /\ Idle(p)
  /\ Len(reqs) < limit
  /\ reqs' = Append(reqs, NewReq("mute", NoBody))
  /\ rid' = [rid EXCEPT ![p] = Len(reqs) + 1]
  /\ pc' = [pc EXCEPT ![p] = "m_lock"]
  /\ UNCHANGED <<shared, data_lock, clock, locals, order>>

\* Line 142: with data_lock, entry.
mute_acquire(p) ==
  /\ pc[p] = "m_lock"
  /\ data_lock = NoProc
  /\ data_lock' = p
  /\ order' = Append(order, rid[p])
  /\ pc' = [pc EXCEPT ![p] = "m_arm"]
  /\ UNCHANGED <<shared, clock, rid, locals, reqs>>

\* Variant: the request toggles the flag instead of setting it.
armed_value_toggle == ~mute_next_response

\* Line 143: the value mute_alarm stores in the flag.
armed_value == TRUE

\* Line 143 and the end of the with block.
mute_arm(p) ==
  /\ pc[p] = "m_arm"
  /\ mute_next_response' = armed_value
  /\ data_lock' = with_exit(p)
  /\ reqs' = [reqs EXCEPT ![rid[p]].cs = "armed"]
  /\ pc' = [pc EXCEPT ![p] = "m_respond"]
  /\ UNCHANGED <<history, last_motion_state, last_vault_status, clock, rid,
                 locals, order>>

\* Lines 145-150.
mute_respond(p) ==
  /\ pc[p] = "m_respond"
  /\ reqs' = [reqs EXCEPT ![rid[p]].response = "queued"]
  /\ pc' = [pc EXCEPT ![p] = "idle"]
  /\ ResetLocals(p)
  /\ UNCHANGED <<shared, data_lock, clock, order>>

\* --------------------------------------------------------------- plot_data
\* Entry of plot_data, before line 155.
plot_begin(p, limit) ==
  /\ Idle(p)
  /\ Len(reqs) < limit
  /\ reqs' = Append(reqs, NewReq("plot", NoBody))
  /\ rid' = [rid EXCEPT ![p] = Len(reqs) + 1]
  /\ pc' = [pc EXCEPT ![p] = "p_lock"]
  /\ UNCHANGED <<shared, data_lock, clock, locals, order>>

\* Line 155: with data_lock, entry.
plot_acquire(p) ==
  /\ pc[p] = "p_lock"
  /\ data_lock = NoProc
  /\ data_lock' = p
  /\ order' = Append(order, rid[p])
  /\ pc' = [pc EXCEPT ![p] = "p_copy"]
  /\ UNCHANGED <<shared, clock, rid, locals, reqs>>

\* Line 156 and the end of the with block: list(history).
plot_copy(p) ==
  /\ pc[p] = "p_copy"
  /\ data_snapshot' = [data_snapshot EXCEPT ![p] = history]
  /\ data_lock' = with_exit(p)
  /\ reqs' = [reqs EXCEPT ![rid[p]].cs = "copied"]
  /\ pc' = [pc EXCEPT ![p] = "p_series"]
  /\ UNCHANGED <<shared, clock, rid, req_body, timestamp, email_triggers,
                 should_send_email, respond_with_mute, order>>

\* Lines 163-171 raise AttributeError on a record whose data has no .get.
plot_raises(snapshot) ==
  \E i \in 1..Len(snapshot) : ~has_get(snapshot[i].data)

\* Variant: the series are built newest first.
plot_series_reversed(snapshot) ==
  LET n == Len(snapshot)
  IN  [timestamps |-> [i \in 1..n |-> snapshot[n + 1 - i].timestamp],
       statuses |-> [i \in 1..n |->
           IF get(snapshot[n + 1 - i].data, "vault_status", "CLOSED") = "OPEN"
           THEN 1 ELSE 0],
       motions |-> [i \in 1..n |->
           IF get(snapshot[n + 1 - i].data, "motion_detected", FALSE)
           THEN 1 ELSE 0]]

\* Lines 159-171: the three series, one entry per record.
plot_series(snapshot) ==
  [timestamps |-> [i \in 1..Len(snapshot) |-> snapshot[i].timestamp],
   statuses |-> [i \in 1..Len(snapshot) |->
       IF get(snapshot[i].data, "vault_status", "CLOSED") = "OPEN"
       THEN 1 ELSE 0],
   motions |-> [i \in 1..Len(snapshot) |->
       IF get(snapshot[i].data, "motion_detected", FALSE) THEN 1 ELSE 0]]

\* Lines 159-260: the page is built from the snapshot and returned.
plot_respond(p) ==
  /\ pc[p] = "p_series"
  /\ ~plot_raises(data_snapshot[p])
  /\ reqs' = [reqs EXCEPT ![rid[p]].response = "html",
                          ![rid[p]].page = <<plot_series(data_snapshot[p])>>]
  /\ pc' = [pc EXCEPT ![p] = "idle"]
  /\ ResetLocals(p)
  /\ UNCHANGED <<shared, data_lock, clock, order>>

\* Lines 166-168: plot_data has no try, the AttributeError reaches the host.
plot_AttributeError(p) ==
  /\ pc[p] = "p_series"
  /\ plot_raises(data_snapshot[p])
  /\ reqs' = [reqs EXCEPT ![rid[p]].response = "unhandled"]
  /\ pc' = [pc EXCEPT ![p] = "idle"]
  /\ ResetLocals(p)
  /\ UNCHANGED <<shared, data_lock, clock, order>>

\* ------------------------------------------------------------ specifications
\* Concurrent device reports and manual mute requests on the thread pool.
Next ==
  \/ \E p \in Procs, raw \in Payloads : collect_parse(p, raw, MaxReqs)
  \/ \E p \in Procs, raw \in Payloads : collect_ValueError(p, raw, MaxReqs)
  \/ \E p \in Procs : collect_acquire(p)
  \/ \E p \in Procs : collect_critical(p)
  \/ \E p \in Procs : collect_AttributeError(p)
  \/ \E p \in Procs, o \in send_acs_email_outcomes : collect_notify(p, o)
  \/ \E p \in Procs : collect_respond(p)
  \/ \E p \in Procs : collect_Exception(p)
  \/ \E p \in Procs : mute_begin(p, MaxReqs)
  \/ \E p \in Procs : mute_acquire(p)
  \/ \E p \in Procs : mute_arm(p)
  \/ \E p \in Procs : mute_respond(p)

Spec == Init /\ [][Next]_vars

\* Concurrent device reports and history reads on the thread pool.
PlotNext ==
  \/ \E p \in Procs, raw \in Payloads : collect_parse(p, raw, MaxReqs)
  \/ \E p \in Procs, raw \in Payloads : collect_ValueError(p, raw, MaxReqs)
  \/ \E p \in Procs : collect_acquire(p)
  \/ \E p \in Procs : collect_critical(p)
  \/ \E p \in Procs : collect_AttributeError(p)
  \/ \E p \in Procs, o \in send_acs_email_outcomes : collect_notify(p, o)
  \/ \E p \in Procs : collect_respond(p)
  \/ \E p \in Procs : collect_Exception(p)
  \/ \E p \in Procs : plot_begin(p, MaxReqs)
  \/ \E p \in Procs : plot_acquire(p)
  \/ \E p \in Procs : plot_copy(p)
  \/ \E p \in Procs : plot_respond(p)
  \/ \E p \in Procs : plot_AttributeError(p)

SpecPlot == Init /\ [][PlotNext]_vars

\* One device reporting sequentially, one report per second, until the deque
\* has wrapped around.
SeqBody == [kind |-> "object", members |-> [motion_detected |-> TRUE]]

SeqTick ==
  /\ Idle(1)
  /\ clock = Len(reqs)
  /\ Tick(SeqReports)

SeqNext ==
  \/ SeqTick
  \/ clock = Len(reqs) + 1 /\ collect_parse(1, SeqBody, SeqReports)
  \/ collect_acquire(1)
  \/ collect_critical(1)
  \/ \E o \in send_acs_email_outcomes : collect_notify(1, o)
  \/ collect_respond(1)

SpecSeq == Init /\ [][SeqNext]_vars

\* Reports of one kind and manual mute requests, long enough for two mute
\* requests followed by two reports.
MuteNext ==
  \/ \E p \in Procs : collect_parse(p, SeqBody, MuteReqs)
  \/ \E p \in Procs : collect_acquire(p)
  \/ \E p \in Procs : collect_critical(p)
  \/ \E p \in Procs, o \in send_acs_email_outcomes : collect_notify(p, o)
  \/ \E p \in Procs : collect_respond(p)
  \/ \E p \in Procs : mute_begin(p, MuteReqs)
  \/ \E p \in Procs : mute_acquire(p)
  \/ \E p \in Procs : mute_arm(p)
  \/ \E p \in Procs : mute_respond(p)

SpecMute == Init /\ [][MuteNext]_vars

\* All three handlers, under the scheduling the thread pool gives them.
LiveNext ==
  \/ \E p \in Procs, raw \in Payloads : collect_parse(p, raw, LiveReqs)
  \/ \E p \in Procs, raw \in Payloads : collect_ValueError(p, raw, LiveReqs)
  \/ \E p \in Procs : collect_acquire(p)
  \/ \E p \in Procs : collect_critical(p)
  \/ \E p \in Procs : collect_AttributeError(p)
  \/ \E p \in Procs, o \in send_acs_email_outcomes : collect_notify(p, o)
  \/ \E p \in Procs : collect_respond(p)
  \/ \E p \in Procs : collect_Exception(p)
  \/ \E p \in Procs : mute_begin(p, LiveReqs)
  \/ \E p \in Procs : mute_acquire(p)
  \/ \E p \in Procs : mute_arm(p)
  \/ \E p \in Procs : mute_respond(p)
  \/ \E p \in Procs : plot_begin(p, LiveReqs)
  \/ \E p \in Procs : plot_acquire(p)
  \/ \E p \in Procs : plot_copy(p)
  \/ \E p \in Procs : plot_respond(p)
  \/ \E p \in Procs : plot_AttributeError(p)

\* A thread waiting at a with data_lock statement takes the lock.
Acquire(p) == collect_acquire(p) \/ mute_acquire(p) \/ plot_acquire(p)

\* Every other step of a thread that is serving a request; the notifier call
\* is among them: send_acs_email is taken to return.
Run(p) ==
  \/ collect_critical(p)
  \/ collect_AttributeError(p)
  \/ \E o \in send_acs_email_outcomes : collect_notify(p, o)
  \/ collect_respond(p)
  \/ collect_Exception(p)
  \/ mute_arm(p)
  \/ mute_respond(p)
  \/ plot_copy(p)
  \/ plot_respond(p)
  \/ plot_AttributeError(p)

\* The scheduler runs every runnable thread, and a thread that waits for the
\* lock is not passed over for ever. No request has to arrive.
SpecLive ==
  /\ Init
  /\ [][LiveNext]_vars
  /\ \A p \in Procs : WF_vars(Run(p)) /\ SF_vars(Acquire(p))

\* Concurrent reports of one kind while the wall clock advances.
ClockNext ==
  \/ Tick(MaxClock)
  \/ \E p \in Procs : collect_parse(p, SeqBody, MaxReqs)
  \/ \E p \in Procs : collect_acquire(p)
  \/ \E p \in Procs : collect_critical(p)
  \/ \E p \in Procs, o \in send_acs_email_outcomes : collect_notify(p, o)
  \/ \E p \in Procs : collect_respond(p)

SpecClock == Init /\ [][ClockNext]_vars

TypeOK ==
  /\ Len(history) <= maxlen
  /\ mute_next_response \in BOOLEAN
  /\ data_lock \in Procs \cup {NoProc}

\* ---------------------------------------------------- reading the observations
Rids == 1..Len(reqs)

Slots == 1..Len(order)

\* A report that went through lines 83-108.
Evaluated(r) == reqs[r].op = "collect" /\ reqs[r].cs = "evaluated"

\* A mute request that has executed line 143.
Armed(r) == reqs[r].op = "mute" /\ reqs[r].cs = "armed"

\* The fields of a report as the code reads them (missing = default).
MotionOf(r) == get(reqs[r].body, "motion_detected", FALSE)

StatusOf(r) == get(reqs[r].body, "vault_status", "CLOSED")

Labels(r) == {reqs[r].triggers[i] : i \in 1..Len(reqs[r].triggers)}

\* The slot of the evaluated report that precedes slot i, 0 if there is none.
PrevSlot(i) ==
  LET before == {j \in Slots : j < i /\ Evaluated(order[j])}
  IN  IF before = {} THEN 0
      ELSE CHOOSE j \in before : \A k \in before : k <= j

PrevMotion(i) == IF PrevSlot(i) = 0 THEN FALSE ELSE MotionOf(order[PrevSlot(i)])

PrevStatus(i) ==
  IF PrevSlot(i) = 0 THEN "CLOSED" ELSE StatusOf(order[PrevSlot(i)])

\* The mute flag as slot i found it: some mute request armed it in an earlier
\* slot and no evaluated report lies between the two.
ArmedAt(i) ==
  \E a \in Slots :
    /\ a < i
    /\ Armed(order[a])
    /\ \A k \in Slots : (a < k /\ k < i) => ~Evaluated(order[k])

MuteRids == {r \in Rids : reqs[r].op = "mute"}

\* Threads that are past the critical section of collect_data.
PastEval(p) == pc[p] \in {"c_notify", "c_respond"}

\* ------------------------------------------------------------------ claims
\* C1: with exactly one mute request issued, among the reports evaluated
\* after it armed the flag exactly one observes the flag as set, that one
\* answers "false" and every other report answers "true".
C1_ExactlyOnceMute ==
  Cardinality(MuteRids) = 1 =>
    LET after == {i \in Slots : Evaluated(order[i]) /\
                     \E a \in Slots : a < i /\ Armed(order[a])}
        consumers == {i \in Slots : Evaluated(order[i]) /\ reqs[order[i]].muted}
    IN  /\ consumers \subseteq after
        /\ after # {} => Cardinality(consumers) = 1
        /\ \A i \in Slots :
             (Evaluated(order[i]) /\ reqs[order[i]].response # "none") =>
               reqs[order[i]].response =
                 (IF i \in consumers THEN "false" ELSE "true")

\* C1 witness: one mute request, then two reports in flight at the same time
\* after their critical sections, exactly one of them holding the mute.
C1_Witness ==
  /\ Cardinality(MuteRids) = 1
  /\ \E p, q \in Procs :
       /\ p # q
       /\ PastEval(p) /\ PastEval(q)
       /\ respond_with_mute[p] /\ ~respond_with_mute[q]

\* C2: a report answers "false" iff the flag was armed when it entered its
\* critical section: the first report evaluated after a mute request, and no
\* later one until the flag is armed again.
C2_OneShotOrdering ==
  \A i \in Slots :
    Evaluated(order[i]) =>
      /\ reqs[order[i]].muted = ArmedAt(i)
      /\ reqs[order[i]].response # "none" =>
           (reqs[order[i]].response = "false") = ArmedAt(i)

\* C2 witness: mute, then a report answered "false", then a report answered
\* "true".
C2_Witness ==
  /\ Len(order) = 3
  /\ Armed(order[1])
  /\ Evaluated(order[2]) /\ reqs[order[2]].response = "false"
  /\ Evaluated(order[3]) /\ reqs[order[3]].response = "true"

\* C3: "Motion Detected" fires on a report iff its motion_detected is true
\* and the motion value of the preceding evaluated report (initially false)
\* was false.
C3_MotionEdge ==
  \A i \in Slots :
    Evaluated(order[i]) =>
      (("Motion Detected" \in Labels(order[i]))
         = (MotionOf(order[i]) /\ ~PrevMotion(i)))

\* C3 witness: true, false, true fires on the first and again on the third.
C3_Witness ==
  /\ Len(order) = 3
  /\ \A i \in 1..3 : Evaluated(order[i])
  /\ MotionOf(order[1]) /\ ~MotionOf(order[2]) /\ MotionOf(order[3])
  /\ "Motion Detected" \in Labels(order[1])
  /\ "Motion Detected" \notin Labels(order[2])
  /\ "Motion Detected" \in Labels(order[3])

\* The reports evaluated up to slot i all carry OPEN or CLOSED (or nothing).
OpenClosedUpTo(i) ==
  \A j \in Slots :
    (j <= i /\ Evaluated(order[j])) => StatusOf(order[j]) \in {"OPEN", "CLOSED"}

\* C4: over reports whose vault_status is OPEN or CLOSED, "Vault Opened"
\* fires on a report iff its status is OPEN and the status of the preceding
\* evaluated report (initially CLOSED) was CLOSED.
C4_VaultEdge ==
  \A i \in Slots :
    (Evaluated(order[i]) /\ OpenClosedUpTo(i)) =>
      (("Vault Opened" \in Labels(order[i]))
         = (StatusOf(order[i]) = "OPEN" /\ PrevStatus(i) = "CLOSED"))

\* C4 witness: OPEN, CLOSED, OPEN fires on the first and again on the third.
C4_Witness ==
  /\ Len(order) = 3
  /\ \A i \in 1..3 : Evaluated(order[i])
  /\ StatusOf(order[1]) = "OPEN"
  /\ StatusOf(order[2]) = "CLOSED"
  /\ StatusOf(order[3]) = "OPEN"
  /\ "Vault Opened" \in Labels(order[1])
  /\ "Vault Opened" \notin Labels(order[2])
  /\ "Vault Opened" \in Labels(order[3])

\* C4 witness of the other case: OPEN twice in a row fires only on the first.
C4_WitnessRepeat ==
  /\ Len(order) = 2
  /\ Evaluated(order[1]) /\ Evaluated(order[2])
  /\ StatusOf(order[1]) = "OPEN" /\ StatusOf(order[2]) = "OPEN"
  /\ "Vault Opened" \in Labels(order[1])
  /\ "Vault Opened" \notin Labels(order[2])

\* C5 (as claimed): a report with OPEN that follows an evaluated report whose
\* vault_status is neither OPEN nor CLOSED fires "Vault Opened".
C5_OtherStatusIsClosed ==
  \A i \in Slots :
    (/\ Evaluated(order[i])
     /\ StatusOf(order[i]) = "OPEN"
     /\ PrevSlot(i) # 0
     /\ PrevStatus(i) \notin {"OPEN", "CLOSED"})
      => "Vault Opened" \in Labels(order[i])

\* C6: while no thread is in a critical section, the remembered motion and
\* vault status are exactly the fields of the report evaluated last (the
\* defaults for missing fields, the initial values before any report).
C6_Serialization ==
  data_lock = NoProc =>
    LET n == PrevSlot(Len(order) + 1)
    IN  IF n = 0
        THEN last_motion_state = FALSE /\ last_vault_status = "CLOSED"
        ELSE /\ last_motion_state = MotionOf(order[n])
             /\ last_vault_status = StatusOf(order[n])

\* C6 witness: two reports that differ in both fields are in flight together,
\* both past their critical sections, and the lock is free.
C6_Witness ==
  /\ data_lock = NoProc
  /\ \E p, q \in Procs :
       /\ p # q
       /\ pc[p] = "c_notify" /\ pc[q] = "c_notify"
       /\ MotionOf(rid[p]) # MotionOf(rid[q])
       /\ StatusOf(rid[p]) # StatusOf(rid[q])

\* Number of records appended so far.
AppendCount == Cardinality({r \in Rids : reqs[r].cs # "none"})

\* C7: the deque holds the newest min(n, 100) of the n records appended, in
\* insertion order (in SpecSeq the k-th record carries timestamp k).
C7_BoundedHistory ==
  /\ Len(history) = (IF AppendCount < maxlen THEN AppendCount ELSE maxlen)
  /\ \A i \in 1..Len(history) :
       /\ history[i].timestamp = AppendCount - Len(history) + i
       /\ history[i].data = SeqBody

\* C7 witness: after 150 submissions the deque holds records 51..150.
C7_Witness ==
  /\ AppendCount = 150
  /\ Len(history) = 100
  /\ history[1].timestamp = 51
  /\ history[100].timestamp = 150

\* C8 (as claimed): a body that is not a JSON object is answered 400 and no
\* record is appended for it.
C8_NonObjectRejected ==
  \A r \in Rids :
    (reqs[r].op = "collect" /\ reqs[r].body.kind # "object") =>
      /\ reqs[r].cs = "none"
      /\ reqs[r].response \in {"none", "400"}

\* C9: a body that cannot be parsed is answered 400 at once: it never enters
\* the critical section, never reaches the notifier, and the step that
\* answers it leaves history, the remembered state, the mute flag and the
\* lock as they were.
C9_UnparseableTerminal ==
  /\ [](\A r \in Rids :
          (reqs[r].op = "collect" /\ reqs[r].body.kind = "unparseable") =>
            /\ reqs[r].response = "400"
            /\ reqs[r].cs = "none"
            /\ reqs[r].notified = "none"
            /\ \A i \in Slots : order[i] # r)
  /\ [][(/\ Len(reqs') > Len(reqs)
         /\ reqs'[Len(reqs')].body.kind = "unparseable")
          => UNCHANGED <<shared, data_lock>>]_vars

\* C9 witness: the flag is armed, an unparseable body is answered 400, and
\* the next valid report still answers "false".
C9_Witness ==
  /\ Len(reqs) = 3
  /\ Armed(1) /\ reqs[1].response = "queued"
  /\ reqs[2].body.kind = "unparseable" /\ reqs[2].response = "400"
  /\ Evaluated(3) /\ reqs[3].response = "false"
  /\ order = <<1, 3>>

\* C10: whatever send_acs_email does, an evaluated report is answered "false"
\* if it consumed the flag and "true" otherwise, never with an error; the
\* notifier runs only for a report with triggers, and the step that runs it
\* leaves history, the remembered state and the mute flag as they were.
C10_NotifierIsolation ==
  /\ [](\A r \in Rids :
          Evaluated(r) =>
            /\ reqs[r].response \in
                 {"none", IF reqs[r].muted THEN "false" ELSE "true"}
            /\ reqs[r].notified # "none" => reqs[r].triggers # <<>>)
  /\ [][(\E r \in Rids : reqs'[r].notified # reqs[r].notified)
          => UNCHANGED shared]_vars

\* C10 witness: the notifier failed for a report that consumed the flag, and
\* the report was answered "false".
C10_Witness ==
  \E r \in Rids :
    /\ Evaluated(r)
    /\ reqs[r].notified = "failed"
    /\ reqs[r].muted
    /\ reqs[r].response = "false"
    /\ ~mute_next_response
    /\ Len(history) >= 1

\* A report that raised inside the with block (line 83).
Faulted(r) == reqs[r].op = "collect" /\ reqs[r].cs = "fault"

\* C11: a report that raises inside the critical section after line 80 is
\* answered 500 and nothing is rolled back or left half done: its record is
\* in history, the lock is released, the mute flag and the remembered state
\* are untouched by it, and it neither mutes nor notifies.
C11_FaultNotRolledBack ==
  /\ [](\A r \in Rids :
          Faulted(r) =>
            /\ reqs[r].response \in {"none", "500"}
            /\ ~reqs[r].muted
            /\ reqs[r].notified = "none"
            /\ \E i \in 1..Len(history) : history[i].data = reqs[r].body
            /\ \A p \in Procs : rid[p] = r => data_lock # p)
  /\ [][\A r \in Rids :
          (reqs[r].cs # "fault" /\ reqs'[r].cs = "fault") =>
            /\ Len(history') = Len(history) + 1
            /\ history'[Len(history')].data = reqs[r].body
            /\ data_lock' = NoProc
            /\ UNCHANGED <<mute_next_response, last_motion_state,
                           last_vault_status>>]_vars

\* C11 witness: a report was answered 500, its record is still the first of
\* history, and a report that took the lock after it was evaluated and answered.
C11_Witness ==
  \E i, j \in Slots :
    /\ i < j
    /\ Faulted(order[i]) /\ reqs[order[i]].response = "500"
    /\ Evaluated(order[j]) /\ reqs[order[j]].response = "true"
    /\ Len(history) = 2
    /\ history[1].data = reqs[order[i]].body
    /\ data_lock = NoProc

\* Positions inside a with data_lock block.
InCritical(p) == pc[p] \in {"c_critical", "m_arm", "p_copy"}

\* Positions after a with data_lock block: the notifier call, the building
\* of the response, the exception handler.
AfterCritical(p) ==
  pc[p] \in {"c_notify", "c_respond", "c_500", "m_respond", "p_series"}

\* C12: the lock is held only inside the with blocks; a thread that is
\* calling the notifier or building its response does not hold it.
C12_NoLockDuringIO ==
  \A p \in Procs :
    /\ data_lock = p => InCritical(p)
    /\ AfterCritical(p) => data_lock # p

\* C12 witness: one thread is about to call the notifier while another
\* thread is inside its critical section.
C12_Witness ==
  \E p, q \in Procs :
    /\ pc[p] = "c_notify" /\ should_send_email[p]
    /\ data_lock = q /\ InCritical(q)

\* The trigger list a report in slot i must produce from the fields of the
\* evaluated report in the slot before it.
ExpectedTriggers(i) ==
  (IF MotionOf(order[i]) /\ ~PrevMotion(i)
   THEN <<"Motion Detected">> ELSE <<>>)
    \o (IF StatusOf(order[i]) = "OPEN" /\ PrevStatus(i) = "CLOSED"
        THEN <<"Vault Opened">> ELSE <<>>)

EvaluatedSlots == {i \in Slots : Evaluated(order[i])}

\* C13: every report computes its triggers from the state left by the report
\* evaluated just before it in lock order; so reports that all carry
\* motion_detected = true fire "Motion Detected" exactly once, and reports
\* that all carry OPEN fire "Vault Opened" exactly once.
C13_ConcurrentEdges ==
  /\ \A i \in EvaluatedSlots : reqs[order[i]].triggers = ExpectedTriggers(i)
  /\ (EvaluatedSlots # {} /\ \A i \in EvaluatedSlots : MotionOf(order[i])) =>
       Cardinality({i \in EvaluatedSlots :
                      "Motion Detected" \in Labels(order[i])}) = 1
  /\ (EvaluatedSlots # {}
        /\ \A i \in EvaluatedSlots : StatusOf(order[i]) = "OPEN") =>
       Cardinality({i \in EvaluatedSlots :
                      "Vault Opened" \in Labels(order[i])}) = 1

\* C13 witness: two reports with OPEN are in flight together, both evaluated,
\* and only the one that took the lock first fired "Vault Opened".
C13_Witness ==
  /\ Len(order) = 2
  /\ \E p, q \in Procs :
       /\ p # q
       /\ PastEval(p) /\ PastEval(q)
       /\ StatusOf(rid[p]) = "OPEN" /\ StatusOf(rid[q]) = "OPEN"
       /\ order = <<rid[p], rid[q]>>
       /\ "Vault Opened" \in Labels(rid[p])
       /\ "Vault Opened" \notin Labels(rid[q])

\* C14: the notifier is called for a report iff the report was evaluated with
\* a non-empty trigger list, whether or not it consumed the mute flag; it is
\* called once, by a thread that does not hold the lock, before the response;
\* a report answered 400 or 500 never reaches it.
C14_NotifyIffTriggers ==
  /\ [](\A r \in Rids :
          reqs[r].op = "collect" =>
            /\ reqs[r].notified # "none" =>
                 (Evaluated(r) /\ reqs[r].triggers # <<>>)
            /\ reqs[r].response # "none" =>
                 ((reqs[r].notified # "none")
                    = (Evaluated(r) /\ reqs[r].triggers # <<>>)))
  /\ [][\A r \in Rids :
          reqs'[r].notified # reqs[r].notified =>
            /\ reqs[r].notified = "none"
            /\ reqs[r].response = "none" /\ reqs'[r].response = "none"
            /\ \A p \in Procs : rid[p] = r => data_lock # p]_vars

\* C14 witness: a report that consumed the mute flag and had a trigger was
\* notified and then answered "false".
C14_Witness ==
  \E r \in Rids :
    /\ Evaluated(r)
    /\ reqs[r].muted
    /\ reqs[r].triggers # <<>>
    /\ reqs[r].notified = "sent"
    /\ reqs[r].response = "false"

\* Number of mute requests that armed the flag between the evaluated report
\* before slot i and slot i.
ArmsBefore(i) ==
  Cardinality({a \in Slots : PrevSlot(i) < a /\ a < i /\ Armed(order[a])})

\* C15: any number k >= 1 of mute requests with no report between them acts
\* as one: the next report answers "false" and the one after it "true"; and
\* the step that arms the flag sets it and changes nothing else of the
\* shared state.
C15_ArmIdempotent ==
  /\ [](\A i \in EvaluatedSlots :
          /\ reqs[order[i]].muted = (ArmsBefore(i) >= 1)
          /\ reqs[order[i]].response \in
               {"none", IF ArmsBefore(i) >= 1 THEN "false" ELSE "true"})
  /\ [][\A r \in Rids :
          (reqs[r].op = "mute" /\ reqs[r].cs # "armed"
             /\ reqs'[r].cs = "armed") =>
            /\ mute_next_response'
            /\ UNCHANGED <<history, last_motion_state,
                           last_vault_status>>]_vars

\* C15 witness: two mute requests, then a report answered "false", then a
\* report answered "true".
C15_Witness ==
  /\ Len(order) = 4
  /\ Armed(order[1]) /\ Armed(order[2])
  /\ Evaluated(order[3]) /\ reqs[order[3]].response = "false"
  /\ Evaluated(order[4]) /\ reqs[order[4]].response = "true"

\* The slot in which request r took the lock.
SlotOf(r) == CHOOSE i \in Slots : order[i] = r

\* The slots of the reports that took the lock before slot i; each of them
\* appended one record.
ReportsBefore(i) == {j \in Slots : j < i /\ reqs[order[j]].op = "collect"}

\* The place of slot j among the reports before slot i, oldest first.
PlaceIn(i, j) == Cardinality({k \in ReportsBefore(i) : k <= j})

\* The snapshot snap is the log as it stood when slot i took the lock.
SnapshotAt(snap, i) ==
  /\ Len(snap) = Cardinality(ReportsBefore(i))
  /\ \A j \in ReportsBefore(i) :
       snap[PlaceIn(i, j)].data = reqs[order[j]].body

\* C16: the snapshot of a history read is the log as it stood at the moment
\* of the copy, oldest first; reports appended later leave it unchanged (it
\* stays a prefix of the growing log); the page returned is the projection
\* of exactly those records; and no step of the read changes history, the
\* remembered state or the mute flag.
C16_SnapshotIndependent ==
  /\ [](\A p \in Procs :
          pc[p] = "p_series" =>
            /\ SnapshotAt(data_snapshot[p], SlotOf(rid[p]))
            /\ Len(data_snapshot[p]) <= Len(history)
            /\ SubSeq(history, 1, Len(data_snapshot[p])) = data_snapshot[p])
  /\ [](\A r \in Rids :
          (reqs[r].op = "plot" /\ reqs[r].response = "html") =>
            LET i == SlotOf(r)
                series == reqs[r].page[1]
            IN  /\ Len(series.timestamps) = Cardinality(ReportsBefore(i))
                /\ Len(series.statuses) = Cardinality(ReportsBefore(i))
                /\ Len(series.motions) = Cardinality(ReportsBefore(i))
                /\ \A j \in ReportsBefore(i) :
                     /\ series.statuses[PlaceIn(i, j)] =
                          (IF StatusOf(order[j]) = "OPEN" THEN 1 ELSE 0)
                     /\ series.motions[PlaceIn(i, j)] =
                          (IF MotionOf(order[j]) THEN 1 ELSE 0))
  /\ [][(\E p \in Procs :
           pc[p] \in {"p_lock", "p_copy", "p_series"} /\ pc'[p] # pc[p])
          => UNCHANGED shared]_vars

\* C16 witness: a reader was handed a page of one record although a second
\* report had been appended by the time the page was returned.
C16_Witness ==
  \E r \in Rids :
    /\ reqs[r].op = "plot"
    /\ reqs[r].response = "html"
    /\ Len(reqs[r].page[1].timestamps) = 1
    /\ Len(history) = 2

\* C17: every request that was issued is eventually answered (a read whose
\* projection raises is answered by the host), whatever the other threads do
\* and also when a report raises inside its critical section.
C17_NoRequestBlocks ==
  \A r \in 1..LiveReqs :
    (Len(reqs) >= r) ~> (Len(reqs) >= r /\ reqs[r].response # "none")

\* C17 witness: a thread waits for the lock while the thread that holds it
\* is about to raise inside the with block.
C17_Witness ==
  \E p, q \in Procs :
    /\ pc[p] = "c_critical" /\ ~has_get(req_body[p]) /\ data_lock = p
    /\ pc[q] \in {"c_lock", "m_lock", "p_lock"}

\* C18 (as claimed): while no thread holds the lock, the remembered motion
\* and vault status are the fields of the newest record of history, or the
\* initial values when history is empty, for every body that can be appended.
C18_HistoryStateCoupled ==
  data_lock = NoProc =>
    IF history = <<>>
    THEN last_motion_state = FALSE /\ last_vault_status = "CLOSED"
    ELSE LET newest == history[Len(history)].data
         IN  /\ has_get(newest)
             /\ last_motion_state = get(newest, "motion_detected", FALSE)
             /\ last_vault_status = get(newest, "vault_status", "CLOSED")

Reports == {r \in Rids : reqs[r].op = "collect"}

\* C19: a report answered with an error never consumed the flag; a report is
\* answered "false" iff it consumed the flag; the reports that consumed the
\* flag never outnumber the mute requests that armed it; and the flag goes
\* from set to clear only in the step in which a report consumes it.
C19_MuteNeverLostOrSpurious ==
  /\ [](/\ \A r \in Reports :
             /\ reqs[r].response \in {"400", "500"} => ~reqs[r].muted
             /\ reqs[r].response # "none" =>
                  ((reqs[r].response = "false") = reqs[r].muted)
        /\ Cardinality({r \in Reports : reqs[r].muted})
             <= Cardinality({r \in Rids : Armed(r)}))
  /\ [][(mute_next_response /\ ~mute_next_response') =>
          \E r \in Reports :
            /\ ~reqs[r].muted
            /\ reqs'[r].muted
            /\ reqs'[r].cs = "evaluated"]_vars

\* C19 witness: the flag was armed, a report that took the lock next raised
\* and was answered 500, and the report after it was answered "false".
C19_Witness ==
  /\ Len(order) = 3
  /\ Armed(order[1])
  /\ Faulted(order[2]) /\ reqs[order[2]].response = "500"
  /\ Evaluated(order[3]) /\ reqs[order[3]].response = "false"
  /\ ~mute_next_response

\* C20 (as claimed): the timestamps of the records of history never decrease
\* from oldest to newest.
C20_TimestampsOrdered ==
  \A i, j \in 1..Len(history) :
    i < j => history[i].timestamp <= history[j].timestamp

====
